---- MODULE Spec2Model ----
(***************************************************************************)
(* Model of src/train.py of tissueMAP: the run naming function             *)
(* get_run_name and the training sequence train().                         *)
(*                                                                         *)
(* Strings are sequences of one-character strings, so that find, slicing   *)
(* and formatting are computed as Python computes them.  Paths are the     *)
(* parsed form pathlib keeps: the root and the list of components.         *)
(***************************************************************************)
EXTENDS Integers, Sequences, FiniteSets, TLC

VARIABLES
    backbone,        \* train(backbone, ...): the backbone identifier of the session
    binary,          \* train(..., binary): the binary-mode flag of the session
    now,             \* real elapsed time in microseconds (not visible to the program)
    wall,            \* local wall-clock reading datetime.now() returns, microseconds since midnight
    calls,           \* record of the direct calls of get_run_name: [at, wall, name, path]
    runs,            \* number of train() invocations started
    pc,              \* position of the running train() invocation
    run_name,        \* local run_name of train()
    model_save_path, \* local model_save_path of train()
    fs,              \* the file system: [dirs, files]
    fs_at_call,      \* the file system when the running train() was entered
    train_ds,        \* local train_ds: [made, n_classes, reduce_to_binary]
    valid_ds,        \* local valid_ds: [made, n_classes, reduce_to_binary]
    head_classes,    \* class count load_model was called with (0: not yet called)
    epoch,           \* number of epochs the fit loop has run
    best,            \* EarlyStoppingCallback.best
    wait,            \* EarlyStoppingCallback.wait
    min_loss,        \* learner.recorder.values: the lowest validation loss of the fit in progress
    min_epoch,       \* learner.recorder.values: the last epoch that reached min_loss (0: none)
    model_state,     \* learner.model: number of epochs its weights have been trained
    report,          \* local report of train()
    binarized_made,  \* validate_binarized has been called in the running train()
    written,         \* artifacts the running train() has written so far
    failed_at,       \* step at which the running train() raised ("" if none)
    returned         \* model_state of the model train() returned (-1: nothing returned)

vars == <<backbone, binary, now, wall, calls, runs,
          pc, run_name, model_save_path, fs, fs_at_call, train_ds, valid_ds,
          head_classes, epoch, best, wait, min_loss, min_epoch, model_state, report,
          binarized_made, written,
          failed_at, returned>>

clockVars == <<now, wall>>
argVars   == <<backbone, binary>>
fitVars   == <<epoch, best, wait, min_loss, min_epoch, model_state>>
localVars == <<run_name, model_save_path, train_ds, valid_ds, head_classes, report>>

-----------------------------------------------------------------------------
(* Bounds of the model *)

MaxLen   == 4    \* backbone strings of up to MaxLen characters (get_run_name alone)
MaxCalls == 2    \* direct calls of get_run_name in a row
MaxRuns  == 2    \* train() invocations in a row
MaxLoss  == 1    \* validation losses 0..MaxLoss, in hundredths

-----------------------------------------------------------------------------
(* Strings *)

Chars == {"o", "p", "/"}

RECURSIVE StringsUpTo(_)
StringsUpTo(n) ==
    IF n = 0 THEN {<< >>}
    ELSE LET shorter == StringsUpTo(n - 1)
         IN  shorter \cup {Append(s, c) : s \in {t \in shorter : Len(t) = n - 1}, c \in Chars}

\* str.find(sub) for a one-character sub: index (from 0) of the first
\* occurrence, -1 when there is none
find(s, c) ==
    IF \E i \in 1..Len(s) : s[i] = c
    THEN (CHOOSE i \in 1..Len(s) : s[i] = c /\ \A j \in 1..(i - 1) : s[j] # c) - 1
    ELSE -1

\* s[k:] with k >= 0 a Python index (from 0)
SliceFrom(s, k) == SubSeq(s, k + 1, Len(s))

\* str(is_binary) for a bool
str(b) == IF b THEN <<"T", "r", "u", "e">> ELSE <<"F", "a", "l", "s", "e">>

Digit(n) == CASE n = 0 -> "0" [] n = 1 -> "1" [] n = 2 -> "2" [] n = 3 -> "3"
              [] n = 4 -> "4" [] n = 5 -> "5" [] n = 6 -> "6" [] n = 7 -> "7"
              [] n = 8 -> "8" [] n = 9 -> "9"

\* "{:02d}" and "{:03d}"
Fmt02(n) == <<Digit((n \div 10) % 10), Digit(n % 10)>>
Fmt03(n) == <<Digit((n \div 100) % 10), Digit((n \div 10) % 10), Digit(n % 10)>>

-----------------------------------------------------------------------------
(* The clock *)

UsPerMs  == 1000
UsPerSec == 1000000
UsPerMin == 60000000
MinPerHr == 60

\* the date of the session; the model's readings stay within this day
DatePrefix == <<"2", "0", "2", "4", "-", "0", "1", "-", "0", "1", "T">>

\* datetime.isoformat(timespec="milliseconds") of the reading w: the
\* microsecond field is truncated, not rounded, to milliseconds
isoformat(w) ==
    DatePrefix \o Fmt02((w \div UsPerMin) \div MinPerHr) \o <<":">>
      \o Fmt02((w \div UsPerMin) % MinPerHr)
      \o <<":">> \o Fmt02((w % UsPerMin) \div UsPerSec)
      \o <<".">> \o Fmt03((w % UsPerSec) \div UsPerMs)

\* first reading of the session: 00:00:59.998500
WallStart == 59998500

\* real time that passes between two direct calls of get_run_name
Elapsed == {1, 999, 1000, 1001, 2000}

\* real time that passes between two train() invocations
RunElapsed == {1000}

\* what happens to the local wall clock meanwhile, besides running: nothing,
\* or it is set back (DST end, NTP step, manual change)
Adjust == {0, -1000, -2000}

\* the same between two train() invocations (the first reading of a session
\* has nothing before it to be compared with)
RunAdjust == {0, -1000}

-----------------------------------------------------------------------------
(* get_run_name *)

\* backbone[backbone.find("/") + 1:]
backbone_name(bb) == SliceFrom(bb, find(bb, "/") + 1)

flag_text_negated(is_binary) == str(~is_binary)

\* str(is_binary) inside the f-string
flag_text(is_binary) == str(is_binary)

BinaryTag == <<"_", "b", "i", "n", "a", "r", "y", "=">>

\* get_run_name(backbone, is_binary) when datetime.now() reads w
get_run_name(bb, is_binary, w) ==
    backbone_name(bb) \o BinaryTag \o flag_text(is_binary) \o <<"_">> \o isoformat(w)

-----------------------------------------------------------------------------
(* pathlib paths and the file system *)

\* number of "/" characters s starts with
RECURSIVE LeadingSlashes(_)
LeadingSlashes(s) ==
    IF s # << >> /\ Head(s) = "/" THEN 1 + LeadingSlashes(Tail(s)) ELSE 0

\* the components of s between "/" separators, empty components dropped
RECURSIVE Components(_, _)
Components(s, cur) ==
    IF s = << >> THEN (IF cur = << >> THEN << >> ELSE <<cur>>)
    ELSE IF Head(s) = "/"
         THEN (IF cur = << >> THEN << >> ELSE <<cur>>) \o Components(Tail(s), << >>)
         ELSE Components(Tail(s), Append(cur, Head(s)))

\* Path(s) on POSIX: the root ("" for a relative path, "//" for exactly two
\* leading slashes, "/" otherwise) and the components
Path(s) ==
    [root  |-> LET n == LeadingSlashes(s)
               IN  IF n = 0 THEN << >> ELSE IF n = 2 THEN <<"/", "/">> ELSE <<"/">>,
     parts |-> Components(s, << >>)]

\* a / b: an absolute right operand replaces the left one
PathJoin(a, b) ==
    IF b.root # << >> THEN b ELSE [root |-> a.root, parts |-> a.parts \o b.parts]

\* p / name for a single component
Child(p, name) == [root |-> p.root, parts |-> Append(p.parts, name)]

\* p and every parent of it, up to the root or the working directory
Ancestors(p) == {[root |-> p.root, parts |-> SubSeq(p.parts, 1, k)] : k \in 0..Len(p.parts)}

IsUnder(q, p) ==
    /\ q.root = p.root
    /\ Len(q.parts) > Len(p.parts)
    /\ SubSeq(q.parts, 1, Len(p.parts)) = p.parts

\* save_dir of the session: "models/"
SaveDirText == <<"m", "o", "d", "e", "l", "s", "/">>
save_dir == Path(SaveDirText)

Cwd == [root |-> << >>, parts |-> << >>]

IsDir(f, p)  == p \in f.dirs
IsFile(f, p) == p \in DOMAIN f.files

\* Path.mkdir(parents=True, exist_ok=True) raises when p or a parent of it
\* exists and is not a directory
MkdirRaises(f, p) == \E a \in Ancestors(p) : IsFile(f, a)

mkdir_clearing(f, p) ==
    [dirs  |-> f.dirs \cup Ancestors(p),
     files |-> [q \in {r \in DOMAIN f.files : ~IsUnder(r, p)} |-> f.files[q]]]

\* Path.mkdir(parents=True, exist_ok=True) when it does not raise: every
\* missing directory on the way is created, nothing else is touched
mkdir(f, p) == [dirs |-> f.dirs \cup Ancestors(p), files |-> f.files]

\* open(p, "w") then write(chunks): the file is created or truncated
WriteFile(f, p, chunks) ==
    [dirs  |-> f.dirs,
     files |-> [q \in DOMAIN f.files \cup {p} |-> IF q = p THEN chunks ELSE f.files[q]]]

\* open(p, "a") then write(chunks): the file is created or extended
AppendFile(f, p, chunks) ==
    [dirs  |-> f.dirs,
     files |-> [q \in DOMAIN f.files \cup {p} |->
                  IF q = p THEN (IF IsFile(f, p) THEN f.files[p] ELSE << >>) \o chunks
                  ELSE f.files[q]]]

-----------------------------------------------------------------------------
(* Collaborators of train(): the data set, the model, the reports *)

Tok(kind, of) == [kind |-> kind, of |-> of]

NoDataset == [made |-> FALSE, n_classes |-> 0, reduce_to_binary |-> FALSE]

\* HistoCRCDataset(dir, reduce_to_binary=...).n_classes: the class folders of
\* the directory, collapsed to two labels in binary mode
n_classes(dir_classes, reduce_to_binary) == IF reduce_to_binary THEN 2 ELSE dir_classes

HistoCRCDataset(dir_classes, reduce_to_binary) ==
    [made |-> TRUE, n_classes |-> n_classes(dir_classes, reduce_to_binary),
     reduce_to_binary |-> reduce_to_binary]

\* validate(model, valid_dl) and validate_binarized(model, valid_dl): the
\* report text of the model they are given
validate(m)           == Tok("report", m)
validate_binarized(m) == Tok("binarized_report", m)

\* class folders HistoCRCDataset may find in train_dir and in valid_dir
TrainDirClasses == {9}
ValidDirClasses == {9, 7}

\* backbone identifiers of the train() sessions
TrainBackbones == {<<"o", "/", "p">>, <<"o", "/", "p", "/", "o">>, <<"o", "/", "/", "p">>}

-----------------------------------------------------------------------------
(* The fit loop: learner.fit_one_cycle with EarlyStoppingCallback, CSVLogger *)

n_epoch   == 4   \* fit_one_cycle(n_epoch=4)
patience  == 4   \* EarlyStoppingCallback(patience=4)
min_delta == 1   \* EarlyStoppingCallback(min_delta=0.01), in hundredths

\* float values: losses in hundredths, inf and nan
Inf == MaxLoss + min_delta + 1
NaN == Inf + 1
LossVals == (0..MaxLoss) \cup {NaN}

\* np.less on floats: false whenever an operand is nan
less(a, b) == a # NaN /\ b # NaN /\ a < b

\* val - self.min_delta, with min_delta negated for a loss monitor
shifted(val) == IF val = NaN THEN NaN ELSE val + min_delta

\* TrackerCallback.after_epoch: self.comp(val - self.min_delta, self.best)
new_best(val, b) == less(shifted(val), b)

\* EarlyStoppingCallback.after_epoch: the new value of self.wait
next_wait(val, b, w) == IF new_best(val, b) THEN 0 ELSE w + 1

stop_after_two(w) == w >= 2

\* EarlyStoppingCallback.after_epoch: raise CancelFitException
stops(w) == w >= patience

\* the weights torch.save(learner.model.state_dict(), ...) writes: those the
\* model holds when fit returns (SaveModelCallback is commented out)
saved_weights(m) == Tok("weights", m)

-----------------------------------------------------------------------------
(* Initial states *)

Root == [root |-> <<"/">>, parts |-> << >>]

NoFiles == [q \in {} |-> << >>]

\* nothing but the working directory
FsFresh == [dirs |-> {Cwd, Root}, files |-> NoFiles]

\* a regular file stands where save_dir should be
FsBlocked == WriteFile(FsFresh, save_dir, <<Tok("notes", 0)>>)

NoPath == Cwd

LocalsInit ==
    /\ run_name = << >>
    /\ model_save_path = NoPath
    /\ train_ds = NoDataset
    /\ valid_ds = NoDataset
    /\ head_classes = 0
    /\ epoch = 0
    /\ best = Inf
    /\ wait = 0
    /\ min_loss = Inf
    /\ min_epoch = 0
    /\ model_state = 0
    /\ report = Tok("", 0)
    /\ binarized_made = FALSE
    /\ written = {}
    /\ failed_at = ""
    /\ returned = -1

Init ==
    /\ backbone \in TrainBackbones
    /\ binary \in BOOLEAN
    /\ now = 0
    /\ wall = WallStart
    /\ calls = << >>
    /\ runs = 0
    /\ pc = "idle"
    /\ fs \in {FsFresh, FsBlocked}
    /\ fs_at_call = fs
    /\ LocalsInit

-----------------------------------------------------------------------------
(* train() *)

\* artifacts of a run, by file name
ConfigFile  == <<"c", "o", "n", "f", "i", "g", ".", "j", "s", "o", "n">>
ModelFile   == <<"m", "o", "d", "e", "l", ".", "p", "t">>
HistoryFile == <<"h", "i", "s", "t", "o", "r", "y", ".", "c", "s", "v">>
ReportFile  == <<"r", "e", "p", "o", "r", "t", ".", "t", "x", "t">>

Goto(next) == pc' = next

\* lines 18-27: train() is entered, the clock is read, the run is named
TrainCall ==
    /\ pc \in {"idle", "done", "failed"}
    /\ runs < MaxRuns
    /\ runs' = runs + 1
    /\ \E d \in RunElapsed, a \in (IF runs = 0 THEN {0} ELSE RunAdjust) :
          /\ now' = now + d
          /\ wall' = wall + d + a
    /\ run_name' = get_run_name(backbone, binary, wall')
    /\ model_save_path' = PathJoin(save_dir, Path(run_name'))
    /\ fs_at_call' = fs
    /\ train_ds' = NoDataset
    /\ valid_ds' = NoDataset
    /\ head_classes' = 0
    /\ epoch' = 0 /\ best' = Inf /\ wait' = 0 /\ min_loss' = Inf /\ min_epoch' = 0
    /\ model_state' = 0
    /\ report' = Tok("", 0)
    /\ binarized_made' = FALSE
    /\ written' = {}
    /\ failed_at' = ""
    /\ returned' = -1
    /\ Goto("mkdir")
    /\ UNCHANGED <<argVars, calls, fs>>

\* line 28: model_save_path.mkdir(parents=True, exist_ok=True)
Mkdir ==
    /\ pc = "mkdir"
    /\ ~MkdirRaises(fs, model_save_path)
    /\ fs' = mkdir(fs, model_save_path)
    /\ Goto("processor")
    /\ UNCHANGED <<argVars, clockVars, calls, runs, fs_at_call, localVars, fitVars,
                   binarized_made, written, failed_at, returned>>

\* line 28 when the platform raises
MkdirFails ==
    /\ pc = "mkdir"
    /\ MkdirRaises(fs, model_save_path)
    /\ Goto("failed")
    /\ failed_at' = "mkdir"
    /\ UNCHANGED <<argVars, clockVars, calls, runs, fs, fs_at_call, localVars, fitVars,
                   binarized_made, written, returned>>

\* lines 30-40: device, image processor, augmentations
LoadProcessor ==
    /\ pc = "processor"
    /\ Goto("train_ds")
    /\ UNCHANGED <<argVars, clockVars, calls, runs, fs, fs_at_call, localVars, fitVars,
                   binarized_made, written, failed_at, returned>>

train_flag(b) == b
valid_flag(b) == b

\* lines 43-45
MakeTrainDs ==
    /\ pc = "train_ds"
    /\ \E c \in TrainDirClasses : train_ds' = HistoCRCDataset(c, train_flag(binary))
    /\ Goto("valid_ds")
    /\ UNCHANGED <<argVars, clockVars, calls, runs, fs, fs_at_call, run_name,
                   model_save_path, valid_ds, head_classes, report, fitVars,
                   binarized_made, written, failed_at, returned>>

\* lines 46-64
MakeValidDs ==
    /\ pc = "valid_ds"
    /\ \E c \in ValidDirClasses : valid_ds' = HistoCRCDataset(c, valid_flag(binary))
    /\ Goto("load_model")
    /\ UNCHANGED <<argVars, clockVars, calls, runs, fs, fs_at_call, run_name,
                   model_save_path, train_ds, head_classes, report, fitVars,
                   binarized_made, written, failed_at, returned>>

classes_of_valid(tds, vds) == vds.n_classes

\* line 67: the class count load_model(backbone, train_ds.n_classes) is given
classes_for_head(tds, vds) == tds.n_classes

\* lines 67-98: model, loss, learner, callbacks
LoadModel ==
    /\ pc = "load_model"
    /\ head_classes' = classes_for_head(train_ds, valid_ds)
    /\ Goto("fit_begin")
    /\ UNCHANGED <<argVars, clockVars, calls, runs, fs, fs_at_call, run_name,
                   model_save_path, train_ds, valid_ds, report, fitVars,
                   binarized_made, written, failed_at, returned>>

artifact_dir_cwd(msp) == Cwd

\* the directory CSVLogger and the savers write into: Learner(path=model_save_path)
artifact_dir(msp) == msp

\* line 100, before_fit: CSVLogger opens history.csv, the tracker is reset
FitBegin ==
    /\ pc = "fit_begin"
    /\ fs' = WriteFile(fs, Child(artifact_dir(model_save_path), HistoryFile), <<Tok("header", 0)>>)
    /\ written' = written \cup {HistoryFile}
    /\ best' = Inf
    /\ wait' = 0
    /\ Goto("fit")
    /\ UNCHANGED <<argVars, clockVars, calls, runs, fs_at_call, localVars, epoch,
                   min_loss, min_epoch, model_state, binarized_made, failed_at, returned>>

\* line 100, one epoch: training, validation loss val, the CSV row,
\* EarlyStoppingCallback.after_epoch.  The loop ends on the epoch limit or
\* on CancelFitException; fit then removes the callbacks it was given from
\* the learner, and their state is not read again.
Epoch ==
    /\ pc = "fit"
    /\ epoch < n_epoch
    /\ \E val \in LossVals :
          LET w    == next_wait(val, best, wait)
              ends == stops(w) \/ epoch + 1 = n_epoch
              low  == less(val, min_loss) \/ (val # NaN /\ val = min_loss)
          IN  /\ epoch' = epoch + 1
              /\ model_state' = model_state + 1
              /\ fs' = AppendFile(fs, Child(artifact_dir(model_save_path), HistoryFile),
                                  <<Tok("row", epoch')>>)
              /\ best' = IF ends THEN Inf ELSE IF new_best(val, best) THEN val ELSE best
              /\ wait' = IF ends THEN 0 ELSE w
              /\ min_epoch' = IF low THEN epoch' ELSE min_epoch
              /\ min_loss' = IF ends THEN Inf ELSE IF low THEN val ELSE min_loss
              /\ IF ends THEN Goto("save_config") ELSE Goto("fit")
    /\ UNCHANGED <<argVars, clockVars, calls, runs, fs_at_call, localVars,
                   binarized_made, written, failed_at, returned>>

\* line 103: config.save_pretrained(model_save_path)
SaveConfig ==
    /\ pc = "save_config"
    /\ fs' = WriteFile(fs, Child(artifact_dir(model_save_path), ConfigFile), <<Tok("config", 0)>>)
    /\ written' = written \cup {ConfigFile}
    /\ Goto("save_model")
    /\ UNCHANGED <<argVars, clockVars, calls, runs, fs_at_call, localVars, fitVars,
                   binarized_made, failed_at, returned>>

\* line 104: torch.save(learner.model.state_dict(), model_save_path / "model.pt")
SaveModel ==
    /\ pc = "save_model"
    /\ fs' = WriteFile(fs, Child(artifact_dir(model_save_path), ModelFile),
                       <<saved_weights(model_state)>>)
    /\ written' = written \cup {ModelFile}
    /\ Goto("validate")
    /\ UNCHANGED <<argVars, clockVars, calls, runs, fs_at_call, localVars, fitVars,
                   binarized_made, failed_at, returned>>

\* line 107: report = validate(model, valid_dl)
Validate ==
    /\ pc = "validate"
    /\ report' = validate(model_state)
    /\ Goto("write_report")
    /\ UNCHANGED <<argVars, clockVars, calls, runs, fs, fs_at_call, run_name,
                   model_save_path, train_ds, valid_ds, head_classes, fitVars,
                   binarized_made, written, failed_at, returned>>

skip_binarized_never(b) == FALSE

\* line 111: if not binary
skip_binarized(b) == b

\* lines 109-111: report.txt is opened with mode "w" and written
WriteReport ==
    /\ pc = "write_report"
    /\ fs' = WriteFile(fs, Child(artifact_dir(model_save_path), ReportFile), <<report>>)
    /\ written' = written \cup {ReportFile}
    /\ IF skip_binarized(binary) THEN Goto("return") ELSE Goto("validate_binarized")
    /\ UNCHANGED <<argVars, clockVars, calls, runs, fs_at_call, localVars, fitVars,
                   binarized_made, failed_at, returned>>

\* line 112: report = validate_binarized(model, valid_dl)
ValidateBinarized ==
    /\ pc = "validate_binarized"
    /\ report' = validate_binarized(model_state)
    /\ binarized_made' = TRUE
    /\ Goto("append_report")
    /\ UNCHANGED <<argVars, clockVars, calls, runs, fs, fs_at_call, run_name,
                   model_save_path, train_ds, valid_ds, head_classes, fitVars,
                   written, failed_at, returned>>

\* 5 * "\n" + "Binarized:"
BinarizedHeading ==
    [i \in 1..5 |-> Tok("LF", 0)] \o <<Tok("Binarized:", 0)>>

\* lines 114-116: report.txt is opened with mode "a" and extended
AppendReport ==
    /\ pc = "append_report"
    /\ fs' = AppendFile(fs, Child(artifact_dir(model_save_path), ReportFile),
                        BinarizedHeading \o <<report>>)
    /\ Goto("return")
    /\ UNCHANGED <<argVars, clockVars, calls, runs, fs_at_call, localVars, fitVars,
                   binarized_made, written, failed_at, returned>>

\* line 118: return model
Return ==
    /\ pc = "return"
    /\ returned' = model_state
    /\ Goto("done")
    /\ UNCHANGED <<argVars, clockVars, calls, runs, fs, fs_at_call, localVars, fitVars,
                   binarized_made, written, failed_at>>

\* the steps that call into a library or the platform, each of which may raise
Fallible == {"processor", "train_ds", "valid_ds", "load_model", "fit_begin", "fit",
             "save_config", "save_model", "validate", "write_report",
             "validate_binarized", "append_report"}

RaiseSwallowed ==
    /\ pc \in Fallible
    /\ failed_at' = pc
    /\ returned' = model_state
    /\ Goto("failed")
    /\ UNCHANGED <<argVars, clockVars, calls, runs, fs, fs_at_call, localVars, fitVars,
                   binarized_made, written>>

\* a library call raises: nothing in train() catches it, the call is left
Raise ==
    /\ pc \in Fallible
    /\ failed_at' = pc
    /\ Goto("failed")
    /\ UNCHANGED <<argVars, clockVars, calls, runs, fs, fs_at_call, localVars, fitVars,
                   binarized_made, written, returned>>

Next ==
    \/ TrainCall
    \/ Mkdir
    \/ MkdirFails
    \/ LoadProcessor
    \/ MakeTrainDs
    \/ MakeValidDs
    \/ LoadModel
    \/ FitBegin
    \/ Epoch
    \/ SaveConfig
    \/ SaveModel
    \/ Validate
    \/ WriteReport
    \/ ValidateBinarized
    \/ AppendReport
    \/ Return
    \/ Raise

Spec == Init /\ [][Next]_vars

-----------------------------------------------------------------------------
(* get_run_name called on its own, as the pure function it is but for the clock *)

InitName ==
    /\ backbone \in StringsUpTo(MaxLen)
    /\ binary \in BOOLEAN
    /\ now = 0
    /\ wall = WallStart
    /\ calls = << >>
    /\ runs = 0
    /\ pc = "idle"
    /\ fs = FsFresh
    /\ fs_at_call = fs
    /\ LocalsInit

\* lines 121-126, and lines 26-27 for the directory the name stands for
CallGetRunName ==
    /\ Len(calls) < MaxCalls
    /\ \E d \in Elapsed, a \in Adjust :
          /\ now' = now + d
          /\ wall' = wall + d + a
    /\ LET name == get_run_name(backbone, binary, wall')
       IN  calls' = Append(calls, [at |-> now', wall |-> wall', name |-> name,
                                   path |-> PathJoin(save_dir, Path(name))])
    /\ UNCHANGED <<argVars, runs, pc, fs, fs_at_call, localVars, fitVars,
                   binarized_made, written, failed_at, returned>>

NextName == CallGetRunName

SpecName == InitName /\ [][NextName]_vars

-----------------------------------------------------------------------------
(* Reading a run name back *)

\* position (from 1) of the first occurrence of t in s, 0 when there is none
IndexOf(s, t) ==
    LET hits == {i \in 1..(Len(s) - Len(t) + 1) : SubSeq(s, i, i + Len(t) - 1) = t}
    IN  IF hits = {} THEN 0 ELSE CHOOSE i \in hits : \A j \in hits : i <= j

TagText == <<"_", "b", "i", "n", "a", "r", "y", "=">>

\* the text before "_binary="
BackboneSegment(name) == SubSeq(name, 1, IndexOf(name, TagText) - 1)

\* the text after "_binary="
AfterTag(name) == SubSeq(name, IndexOf(name, TagText) + Len(TagText), Len(name))

\* the text between "_binary=" and the next "_"
FlagSegment(name) == SubSeq(AfterTag(name), 1, IndexOf(AfterTag(name), <<"_">>) - 1)

Has(s, c) == \E i \in 1..Len(s) : s[i] = c

\* the substring of s after the last c in it
AfterLast(s, c) ==
    LET last == CHOOSE i \in 1..Len(s) : s[i] = c /\ \A j \in (i + 1)..Len(s) : s[j] # c
    IN  SubSeq(s, last + 1, Len(s))

BoolText(b) == IF b THEN <<"T", "r", "u", "e">> ELSE <<"F", "a", "l", "s", "e">>

\* YYYY-MM-DDTHH:MM:SS.mmm
TimestampLen == 23

-----------------------------------------------------------------------------
(* Properties of get_run_name *)

\* C1: for every backbone with at least one "/", the backbone segment of the
\* returned name (the text before "_binary=") is the substring of backbone
\* after the LAST "/", also when backbone has two or more "/".
C1_SegmentAfterLastSlash ==
    \A i \in DOMAIN calls :
        Has(backbone, "/") => BackboneSegment(calls[i].name) = AfterLast(backbone, "/")

\* C2: two calls with the same backbone and flag made at least one
\* millisecond apart return different names, so the two runs never share a
\* run directory.
C2_DistinctNames ==
    \A i, j \in DOMAIN calls :
        (i < j /\ calls[j].at - calls[i].at >= UsPerMs)
            => (calls[i].name # calls[j].name /\ calls[i].path # calls[j].path)

-----------------------------------------------------------------------------
(* Properties of train() *)

\* save_dir/<run_name>, as pathlib joins the two
RunDir == PathJoin(save_dir, Path(run_name))

InRun == pc \notin {"idle"}

AfterFit == {"save_config", "save_model", "validate", "write_report",
             "validate_binarized", "append_report", "return", "done"}

TextAt(f, p) == IF IsFile(f, p) THEN f.files[p] ELSE << >>

\* C3: the run name is <backbone segment>_binary=<flag>_<timestamp>, <flag>
\* being the string form of the flag passed in, and that flag is the one
\* both datasets get as reduce_to_binary.
C3_NameCarriesFlag ==
    InRun =>
        LET i     == IndexOf(run_name, TagText)
            seg   == SubSeq(run_name, 1, i - 1)
            after == SubSeq(run_name, i + Len(TagText), Len(run_name))
            j     == IndexOf(after, <<"_">>)
            flag  == SubSeq(after, 1, j - 1)
            time  == SubSeq(after, j + 1, Len(after))
        IN  /\ i > 0
            /\ j > 0
            /\ run_name = seg \o TagText \o BoolText(binary) \o <<"_">> \o time
            /\ flag = BoolText(binary)
            /\ Len(time) = TimestampLen
            /\ ~Has(time, "_")
            /\ train_ds.made => BoolText(train_ds.reduce_to_binary) = flag
            /\ valid_ds.made => BoolText(valid_ds.reduce_to_binary) = flag

C3_Witness ==
    /\ pc = "load_model"
    /\ train_ds.made /\ valid_ds.made
    /\ binary
    /\ FlagSegment(run_name) = <<"T", "r", "u", "e">>

StandardReport == Tok("report", model_state)
BinarizedReport == Tok("binarized_report", model_state)
LF == Tok("LF", 0)

\* C4: on completion report.txt holds exactly the standard report in a
\* binary run, and the standard report, five newlines, "Binarized:" and the
\* binarized report otherwise; a binary run never produces the binarized
\* report, and the standard report is in the file before the binarized
\* section is written.
C4_ReportContents ==
    /\ pc = "done" =>
          TextAt(fs, Child(RunDir, ReportFile)) =
              IF binary THEN <<StandardReport>>
              ELSE <<StandardReport, LF, LF, LF, LF, LF, Tok("Binarized:", 0), BinarizedReport>>
    /\ binary => ~binarized_made /\ report.kind # "binarized_report"
    /\ pc = "append_report" =>
          /\ ReportFile \in written
          /\ TextAt(fs, Child(RunDir, ReportFile)) = <<StandardReport>>

C4_Witness ==
    /\ pc = "done"
    /\ ~binary
    /\ Len(TextAt(fs, Child(RunDir, ReportFile))) = 8

Artifacts == {ConfigFile, ModelFile, HistoryFile, ReportFile}

NothingInTheWay(p) == \A a \in Ancestors(p) : ~IsFile(fs, a)

\* C6: creating the run directory succeeds whether or not it or its parents
\* exist, creates every missing parent, leaves the contents of existing
\* directories unchanged, and doing it twice gives the state doing it once
\* gives.
C6_MkdirIdempotent ==
    [][pc = "mkdir" =>
          /\ NothingInTheWay(model_save_path) => pc' = "processor"
          /\ pc' = "processor" =>
                /\ fs'.files = fs.files
                /\ fs'.dirs = fs.dirs \cup Ancestors(model_save_path)
                /\ ~MkdirRaises(fs', model_save_path)
                /\ mkdir(fs', model_save_path) = fs']_vars

\* the run directory was there already, with files in it, and is as it was
C6_Witness ==
    /\ pc = "processor"
    /\ IsDir(fs_at_call, model_save_path)
    /\ \E q \in DOMAIN fs_at_call.files : IsUnder(q, model_save_path)
    /\ fs = fs_at_call

\* C7: the class count the head is sized with equals the class count of the
\* training dataset and that of the validation dataset.
C7_HeadMatchesBothDatasets ==
    head_classes # 0 =>
        /\ head_classes = train_ds.n_classes
        /\ head_classes = valid_ds.n_classes

\* C7, amended: the class count the head is sized with equals the class
\* count of the training dataset, in binary and in multi-class runs; the
\* validation dataset's count is not consulted.
C7_HeadMatchesTrainDataset ==
    head_classes # 0 =>
        /\ train_ds.made
        /\ head_classes = train_ds.n_classes

C7_Witness ==
    /\ head_classes # 0
    /\ ~binary
    /\ valid_ds.made
    /\ valid_ds.n_classes # head_classes

BeforeOrInFit == {"processor", "train_ds", "valid_ds", "load_model", "fit_begin", "fit"}

\* a failed call stays failed and changes nothing, until train() is called again
FailureIsFinal ==
    [][pc = "failed" =>
          \/ pc' = "failed" /\ fs' = fs /\ returned' = returned
          \/ pc' = "mkdir" /\ runs' = runs + 1 /\ fs' = fs]_vars

\* C8: a failure at any step propagates: no later step runs, no model is
\* returned, what was written stays; a failure before or during fitting
\* leaves the run directory created but without model.pt and report.txt, a
\* failure during validation leaves model.pt and the config but no report.txt.
C8_FailureLeaves ==
    pc = "failed" =>
        LET dir == RunDir
        IN  /\ returned = -1
            /\ failed_at \in BeforeOrInFit =>
                  /\ IsDir(fs, dir)
                  /\ ~IsFile(fs, Child(dir, ModelFile))
                  /\ ~IsFile(fs, Child(dir, ReportFile))
            /\ failed_at \in {"validate", "validate_binarized"} =>
                  /\ IsFile(fs, Child(dir, ModelFile))
                  /\ IsFile(fs, Child(dir, ConfigFile))
                  /\ ~IsFile(fs, Child(dir, ReportFile))

FailureLeavesAmended ==
    pc = "failed" =>
        LET dir == RunDir
        IN  /\ returned = -1
            /\ failed_at \in BeforeOrInFit =>
                  /\ IsDir(fs, dir)
                  /\ ModelFile \notin written
                  /\ ReportFile \notin written
                  /\ \A a \in {ModelFile, ReportFile} :
                        TextAt(fs, Child(dir, a)) = TextAt(fs_at_call, Child(dir, a))
            /\ failed_at = "validate" =>
                  /\ {ModelFile, ConfigFile} \subseteq written
                  /\ IsFile(fs, Child(dir, ModelFile))
                  /\ IsFile(fs, Child(dir, ConfigFile))
                  /\ ReportFile \notin written
                  /\ TextAt(fs, Child(dir, ReportFile)) = TextAt(fs_at_call, Child(dir, ReportFile))
            /\ failed_at = "validate_binarized" =>
                  /\ ~binary
                  /\ IsFile(fs, Child(dir, ModelFile))
                  /\ IsFile(fs, Child(dir, ConfigFile))
                  /\ TextAt(fs, Child(dir, ReportFile)) = <<StandardReport>>

\* C8, amended: as C8, but a failure before or during fitting leaves the run
\* directory created with no model.pt and no report.txt written by this run,
\* a failure during the standard validation leaves this run's model.pt and
\* config and no report.txt written by it, and a failure during the
\* binarized validation leaves report.txt holding the standard report only.
C8_FailureLeavesAmended == []FailureLeavesAmended /\ FailureIsFinal

C8_Witness ==
    /\ pc = "failed"
    /\ failed_at = "validate_binarized"
    /\ IsFile(fs, Child(RunDir, ReportFile))

\* C9: the weights written to model.pt, the model reported on in report.txt
\* and the model returned are those after the epoch with the lowest
\* validation loss among the epochs run.
C9_BestCheckpointSaved ==
    (pc = "done" /\ min_epoch # 0) =>
        LET dir == RunDir
        IN  /\ TextAt(fs, Child(dir, ModelFile)) = <<Tok("weights", min_epoch)>>
            /\ Head(TextAt(fs, Child(dir, ReportFile))) = Tok("report", min_epoch)
            /\ returned = min_epoch

\* C10: the fit loop runs at most 4 epochs, stops early after 4 epochs in a
\* row without an improvement of the validation loss by 0.01, and so is never
\* cut short: every run that gets past the fit has run exactly 4 epochs
\* before the weights are saved.
C10_FourEpochs ==
    /\ epoch <= 4
    /\ pc = "fit" => epoch < 4 /\ wait < 4
    /\ (pc \in AfterFit \/ (pc = "failed" /\ failed_at \in AfterFit)) => epoch = 4
    /\ ModelFile \in written =>
          TextAt(fs, Child(RunDir, ModelFile)) = <<Tok("weights", 4)>>

\* four epochs without any improvement after the first
C10_Witness ==
    /\ pc = "validate"
    /\ ModelFile \in written
    /\ epoch = 4
    /\ min_epoch = 1

====
